---- MODULE Spec2Model ----
(***************************************************************************)
(* Model of the process I/O bridge of tau_gui.py (class TauGUI): the Tk    *)
(* main thread (send_command, restart_process, check_queue, load_script,   *)
(* execute_next_step), the reader threads (_run_process), the shared       *)
(* fields they race on (process, last_command, command_start_time,         *)
(* msg_queue), the text widgets the main thread logs to, and the child     *)
(* processes as environment.                                               *)
(*                                                                         *)
(* Text is a sequence of one-character strings.  A raw output line is the  *)
(* line without its terminating newline; end-of-stream is a separate       *)
(* outcome of readline.  None is the empty sequence <<>> and a held        *)
(* value v is <<v>> for last_command; 0 is None for process and            *)
(* command_start_time.  time.monotonic() at the k-th call of send_command  *)
(* is the stamp k, and a duration "now - stamp k" is recorded as since = k *)
(* (since = 0 is the duration 0.0).                                        *)
(***************************************************************************)
EXTENDS Integers, Sequences, FiniteSets, TLC

\* ------------------------------------------------------------------ bounds
MaxSubmits == 2     \* calls of send_command in a run
MaxRestarts == 1    \* calls of restart_process in a run
MaxInputs == 4      \* calls of send_command plus lines the children write
MaxScriptLen == 3   \* lines of a script file
MaxScriptLines == 4 \* lines of all the script files loaded in a run
MaxLoads == 2       \* calls of load_script in a run
MaxTokens == 3      \* characters and escape sequences of a colored line

\* -------------------------------------------------------------------- text
ESC == "ESC"
PromptToken == <<"t", "a", "u", ">">>
UpperChars == <<"A","B","C","D","E","F","G","H","I","J","K","L","M",
                "N","O","P","Q","R","S","T","U","V","W","X","Y","Z">>
LowerChars == <<"a","b","c","d","e","f","g","h","i","j","k","l","m",
                "n","o","p","q","r","s","t","u","v","w","x","y","z">>
ParamDigitsOnly == {"0","1","2","3","4","5","6","7","8","9"}
ParamChars == {"0","1","2","3","4","5","6","7","8","9",";","?"}
SpaceChars == {" ", "\t"}

Range(s) == {s[i] : i \in 1..Len(s)}
IsLetter(c) == c \in Range(UpperChars) \cup Range(LowerChars)

\* str.lower() on one character
LowerChar(c) ==
    IF c \in Range(UpperChars)
    THEN LowerChars[CHOOSE i \in 1..Len(UpperChars) : UpperChars[i] = c]
    ELSE c
Lower(s) == [i \in 1..Len(s) |-> LowerChar(s[i])]

\* str.strip(): drop leading and trailing whitespace
RECURSIVE LStrip(_)
LStrip(s) == IF s # <<>> /\ Head(s) \in SpaceChars THEN LStrip(Tail(s)) ELSE s
RECURSIVE RStrip(_)
RStrip(s) ==
    IF s # <<>> /\ s[Len(s)] \in SpaceChars
    THEN RStrip(SubSeq(s, 1, Len(s) - 1)) ELSE s
Strip(s) == RStrip(LStrip(s))

\* length of the longest run of parameter characters at the head of s
RECURSIVE ParamRun(_)
ParamRun(s) ==
    IF s # <<>> /\ Head(s) \in ParamChars THEN 1 + ParamRun(Tail(s)) ELSE 0

\* length of the match of \x1B\[[0-9;?]*[a-zA-Z] at the head of s, 0 if none
CsiMatchLen(s) ==
    IF Len(s) >= 2 /\ s[1] = ESC /\ s[2] = "["
    THEN LET rest == SubSeq(s, 3, Len(s))
             n == ParamRun(rest)
         IN IF Len(rest) > n /\ IsLetter(rest[n + 1]) THEN n + 3 ELSE 0
    ELSE 0

\* re.sub of the pattern by '': leftmost matches removed, the rest kept
RECURSIVE strip_ansi_codes(_)
strip_ansi_codes(s) ==
    IF s = <<>> THEN <<>>
    ELSE LET n == CsiMatchLen(s)
         IN IF n > 0 THEN strip_ansi_codes(SubSeq(s, n + 1, Len(s)))
            ELSE <<Head(s)>> \o strip_ansi_codes(Tail(s))

\* cleaned_line = strip_ansi_codes(line.strip())
Clean(raw) == strip_ansi_codes(Strip(raw))

\* f"tau> {cmd}"
PromptAndEcho(cmd) == PromptToken \o <<" ">> \o cmd

\* command.strip().lower() in ["clear", "cls"]
IsClearLowerOnly(cmd) == Lower(cmd) \in {<<"c","l","e","a","r">>, <<"c","l","s">>}
IsClear(cmd) == Lower(Strip(cmd)) \in {<<"c","l","e","a","r">>, <<"c","l","s">>}

\* cleaned_line == "tau>"
IsPromptNever(cleaned) == FALSE
IsPrompt(cleaned) == cleaned = PromptToken

\* is_echo or is_prompt_and_echo, for last_command = <<>> (None) or <<cmd>>
IsEchoOfAnything(cleaned, last) == last # <<>>
IsEchoBareOnly(cleaned, last) == last # <<>> /\ cleaned = last[1]
IsEcho(cleaned, last) ==
    \/ last # <<>> /\ cleaned = last[1]
    \/ last # <<>> /\ cleaned = PromptAndEcho(last[1])

\* ------------------------------------------------------------------ inputs
CmdA == <<"a">>
CmdATrail == <<"a", " ">>
CmdCls == <<" ", "C", "L", "S">>
Cmds == {CmdA, CmdATrail, PromptToken, CmdCls}
CmdsRestart == {CmdA}

\* the lines of a script file: comments (one indented), an empty line, a
\* line of whitespace, a command
ScriptComment == <<"#">>
ScriptCommentIndented == <<" ", "#">>
ScriptEmpty == <<>>
ScriptSpace == <<" ">>
ScriptLineSet == {ScriptComment, ScriptCommentIndented, ScriptEmpty,
                  ScriptSpace, CmdA}
Scripts == UNION {[1..n -> ScriptLineSet] : n \in 0..MaxScriptLen}

LineY == <<ESC, "[", "1", ";", "3", "2", "m", "y", ESC, "[", "0", "m">>
LineBlank == <<" ", ESC, "[", "0", "m">>
\* a colored line: plain characters and CSI sequences (ESC, "[", parameter
\* characters, one final letter), token by token
PlainToken(c) == [csi |-> FALSE, text |-> <<c>>]
CsiToken(params, final) == [csi |-> TRUE, text |-> <<ESC, "[">> \o params \o <<final>>]
SanitizerTokens ==
    {PlainToken("y"), PlainToken("["), PlainToken("3"),
     CsiToken(<<>>, "m"), CsiToken(<<"1", ";", "3">>, "m"),
     CsiToken(<<"?", "2">>, "h")}
SanitizerInputs == UNION {[1..n -> SanitizerTokens] : n \in 1..MaxTokens}
\* the line as the child writes it, and its plain characters alone
RECURSIVE Flatten(_)
Flatten(toks) ==
    IF toks = <<>> THEN <<>> ELSE Head(toks).text \o Flatten(Tail(toks))
RECURSIVE PlainOf(_)
PlainOf(toks) ==
    IF toks = <<>> THEN <<>>
    ELSE (IF Head(toks).csi THEN <<>> ELSE Head(toks).text) \o PlainOf(Tail(toks))
OutLinesSanitizer == {Flatten(toks) : toks \in SanitizerInputs}

\* a line holding a byte sequence that is not valid in the pipe's encoding
LineUndecodable == <<"UNDECODABLE">>

\* one reader thread from __init__ and one per call of restart_process; the
\* runs of repeated restarts make one call more
MaxTerminateRestarts == MaxRestarts + 1
Threads == 1..(MaxTerminateRestarts + 1)
\* calls of send_command plus lines written, in the smaller runs
MaxRestartInputs == MaxInputs - 1


\* ------------------------------------------------------------------- state
VARIABLES
    tau_executable,      \* self.tau_executable is set
    process,             \* self.process: 0 (None) or the id of a Popen object
    command_start_time,  \* self.command_start_time: 0 (None) or a stamp
    last_command,        \* self.last_command: <<>> (None) or <<text>>
    msg_queue,           \* every tuple put on self.msg_queue, in put order
    mpc, mcmd, mstep,    \* main thread: position, command argument, step
    nSubmit, nRestart,   \* calls of send_command / restart_process so far
    tpc, tcur, tline, tdur,  \* reader threads: position and locals
    palive, pasked, pstdin, preact,   \* child processes
    pstdout, pread,      \* a child's output: the lines written, how many read
    pout,                \* lines the child processes have written so far
    q_items,             \* the tuples self.msg_queue holds now, oldest first
    got,                 \* every tuple get_nowait has returned, in order
    debug_events,        \* self.debug_events
    repl_log,            \* the lines of the repl_log widget: text and tag
    history_log,         \* the lines of the history_log widget
    script_lines,        \* self.script_lines
    current_step_index,  \* self.current_step_index
    step_btn,            \* state of self.step_btn: "normal" or "disabled"
    script_status,       \* what self.script_status shows
    dialog,              \* the message box the last load_script showed
    nLoad, nLines        \* calls of load_script, and the lines it has read

vars == <<tau_executable, process, command_start_time, last_command,
          msg_queue, mpc, mcmd, mstep, nSubmit, nRestart,
          tpc, tcur, tline, tdur,
          palive, pasked, pstdin, pstdout, pread, preact, pout,
          q_items, got, debug_events, repl_log, history_log,
          script_lines, current_step_index, step_btn, script_status,
          dialog, nLoad, nLines>>

mainVars == <<mpc, mcmd, mstep, nSubmit, nRestart>>
readerLocals == <<tcur, tline, tdur>>
procVars == <<palive, pasked, pstdin, pstdout, pread, preact, pout>>
consumerVars == <<got, debug_events>>
widgetVars == <<repl_log, history_log>>
scriptVars == <<script_lines, current_step_index, step_btn, script_status,
                dialog, nLoad, nLines>>
\* what only the handlers of the main thread touch
uiVars == <<consumerVars, widgetVars, scriptVars>>

\* the cleaned line a reader holds; cause (the stamp of the input the child
\* was reacting to when it wrote the line) and from (the child that wrote it)
\* are history fields
NoLine == [text |-> <<>>, cause |-> 0, from |-> 0]
\* a line of a child's standard input: the text before the newline, and the
\* stamp of the send_command call that wrote it (0 for the bare newline)
NoInput == [text |-> <<>>, id |-> 0]

\* The tuples put on msg_queue: (target, message, tag), with the fields of a
\* debug_data message spelled out.  id is the stamp of the submit a "send"
\* reports; cause and from (those of the line) and by (the putting thread,
\* 0 = main) are history fields.
Event(target, type, text, tag, since, id, ln, by) ==
    [target |-> target, type |-> type, text |-> text, tag |-> tag,
     since |-> since, id |-> id, cause |-> ln.cause, from |-> ln.from,
     by |-> by]

SendEvent(cmd, id) ==
    Event("debug_data", "send", cmd, "None", 0, id, NoLine, 0)
ReplLine(ln, t) ==
    Event("repl", "line", ln.text, "None", 0, 0, ln, t)
RecvEvent(ln, since, t) ==
    Event("debug_data", "recv", ln.text, "recv", since, 0, ln, t)
StartedEvents(t) ==
    << Event("repl", "info", <<"Tau REPL process started">>, "info", 0, 0, NoLine, t),
       Event("debug_data", "info", <<"PROCESS STARTED">>, "None", 0, 0, NoLine, t) >>
ErrorEvent(t) ==
    Event("repl", "error", <<"Error">>, "error", 0, 0, NoLine, t)
FinishedEvent(t) ==
    Event("debug_data", "info", <<"PROCESS FINISHED">>, "None", 0, 0, NoLine, t)

\* a line of a text widget, as log_to_widget(widget, text, tag) inserts it
WLine(text, tag) == [text |-> text, tag |-> tag]
NotRunningLine == WLine(<<"Tau process is not running.">>, "error")
WriteErrorLine == WLine(<<"Error writing to process">>, "error")
RestartingLine == WLine(<<"Restarting...">>, "info")
\* f"» {command}", no tag
HistoryLine(cmd) == WLine(<<"» ">> \o cmd, "None")

\* what the script_status label shows: "Loaded: <name>",
\* f"Step: {current_step_index}/{len(script_lines)}", "Script finished"
NoScript == [text |-> "No script loaded", at |-> 0, of |-> 0]
Loaded == [text |-> "Loaded", at |-> 0, of |-> 0]
StepOf(i, n) == [text |-> "Step", at |-> i, of |-> n]
Finished == [text |-> "Script finished", at |-> 0, of |-> 0]
ScriptLoadedLine == WLine(<<"--- Script Loaded ---">>, "info")

Init ==
    /\ tau_executable \in BOOLEAN
    /\ process = 0
    /\ command_start_time = 0
    /\ last_command = <<>>
    /\ msg_queue = <<>>
    /\ mpc = "idle" /\ mcmd = <<>> /\ mstep = 0
    /\ nSubmit = 0 /\ nRestart = 0
    \* __init__ starts the first reader thread when the executable is known
    /\ tpc = [t \in Threads |->
                IF t = 1 /\ tau_executable THEN "start" ELSE "unstarted"]
    /\ tcur = [t \in Threads |-> 0]
    /\ tline = [t \in Threads |-> NoLine]
    /\ tdur = [t \in Threads |-> 0]
    /\ palive = [p \in Threads |-> "none"]
    /\ pasked = [p \in Threads |-> FALSE]
    /\ pstdin = [p \in Threads |-> <<>>]
    /\ pstdout = [p \in Threads |-> <<>>]
    /\ pread = [p \in Threads |-> 0]
    /\ preact = [p \in Threads |-> NoInput]
    /\ pout = 0
    /\ q_items = <<>> /\ got = <<>> /\ debug_events = <<>>
    /\ repl_log = <<>> /\ history_log = <<>>
    /\ script_lines = <<>> /\ current_step_index = 0
    /\ step_btn = "disabled" /\ script_status = NoScript
    /\ dialog = "none"
    /\ nLoad = 0 /\ nLines = 0

\* self.process and self.process.poll() is None
AliveNoPoll(p) == p # 0
Alive(p) == p # 0 /\ palive[p] = "alive"

\* self.msg_queue.put(...): never blocks, the queue has no size limit
PutAll(evs) == msg_queue' = msg_queue \o evs /\ q_items' = q_items \o evs
Put(ev) == PutAll(<<ev>>)

\* ------------------------------------------------------------- main thread
\* The statements of send_command after its guards, in program order:
\* msg_queue.put(send), command_start_time = now, last_command = command,
\* process.stdin.write(command + "\n").
SendStepsWriteFirst == <<"write", "put", "time", "last">>
SendCommandSteps == <<"put", "time", "last", "write">>

\* self.last_command = command
KeepPending(old, cmd) == IF old = <<>> THEN <<cmd>> ELSE old
NewLastCommand(old, cmd) == <<cmd>>

\* send_command(cmd): the guards.  A live process and clear/cls: the repl
\* widget is emptied, a bare newline is written and nothing recorded.  A live
\* process otherwise: the command goes to the history widget and the four
\* statements follow, one step each.  No live process: an error line goes to
\* the repl widget and no shared field changes.
SendCommand(cmd) ==
    /\ nSubmit' = nSubmit + 1
    /\ IF Alive(process)
       THEN IF IsClear(cmd)
            THEN /\ pstdin' = [pstdin EXCEPT ![process] =
                                 Append(@, NoInput)]
                 /\ mpc' = "idle" /\ mstep' = 0 /\ mcmd' = <<>>
                 /\ repl_log' = <<>>
                 /\ UNCHANGED history_log
            ELSE /\ mpc' = "send" /\ mstep' = 1 /\ mcmd' = cmd
                 /\ history_log' = Append(history_log, HistoryLine(cmd))
                 /\ UNCHANGED <<pstdin, repl_log>>
       ELSE /\ mpc' = "idle" /\ mstep' = 0 /\ mcmd' = <<>>
            /\ repl_log' = Append(repl_log, NotRunningLine)
            /\ UNCHANGED <<pstdin, history_log>>
    /\ UNCHANGED <<tau_executable, process, command_start_time, last_command,
                   msg_queue, q_items, nRestart, tpc, readerLocals,
                   palive, pasked, pstdout, pread, preact, pout,
                   consumerVars>>

\* on_submit: the text of the input entry, if any, goes to send_command
SubmitBegin(cmd) ==
    /\ mpc = "idle"
    /\ cmd # <<>>
    /\ SendCommand(cmd)
    /\ UNCHANGED scriptVars

SendStep ==
    /\ mpc = "send"
    /\ LET what == SendCommandSteps[mstep] IN
       /\ IF what = "put" THEN Put(SendEvent(mcmd, nSubmit))
                          ELSE UNCHANGED <<msg_queue, q_items>>
       /\ IF what = "time" THEN command_start_time' = nSubmit
                           ELSE UNCHANGED command_start_time
       /\ IF what = "last" THEN last_command' = NewLastCommand(last_command, mcmd)
                           ELSE UNCHANGED last_command
       \* a write to a process that has exited raises and is logged
       /\ IF what = "write" /\ Alive(process)
          THEN pstdin' = [pstdin EXCEPT ![process] =
                            Append(@, [text |-> mcmd, id |-> nSubmit])]
          ELSE UNCHANGED pstdin
       /\ IF what = "write" /\ ~Alive(process)
          THEN repl_log' = Append(repl_log, WriteErrorLine)
          ELSE UNCHANGED repl_log
    /\ IF mstep < Len(SendCommandSteps)
       THEN mstep' = mstep + 1 /\ mpc' = "send" /\ mcmd' = mcmd
       ELSE mstep' = 0 /\ mpc' = "idle" /\ mcmd' = <<>>
    /\ UNCHANGED <<tau_executable, process, nSubmit, nRestart,
                   tpc, readerLocals, palive, pasked, pstdout, pread, preact, pout,
                   consumerVars, history_log, scriptVars>>

\* self.msg_queue.get_nowait() on a queue that is not empty: the oldest item
GetNowaitNewest(q) == [item |-> q[Len(q)], rest |-> SubSeq(q, 1, Len(q) - 1)]
GetNowait(q) == [item |-> Head(q), rest |-> Tail(q)]

\* check_queue, one turn of its loop: while not self.msg_queue.empty(): take
\* a tuple; a debug_data message is appended to debug_events, any other is
\* logged to the widget it names.  The timer calls check_queue between
\* handlers; with an empty queue the call changes nothing.
CheckQueue ==
    /\ mpc \in {"idle", "check"}
    /\ q_items # <<>>
    /\ LET g == GetNowait(q_items) IN
       /\ q_items' = g.rest
       /\ got' = Append(got, g.item)
       /\ IF g.item.target = "debug_data"
          THEN /\ debug_events' = Append(debug_events, g.item)
               /\ UNCHANGED repl_log
          ELSE /\ repl_log' = Append(repl_log, WLine(g.item.text, g.item.tag))
               /\ UNCHANGED debug_events
    /\ mpc' = "check"
    /\ UNCHANGED <<tau_executable, process, command_start_time, last_command,
                   msg_queue, mcmd, mstep, nSubmit, nRestart, tpc,
                   readerLocals, procVars, history_log, scriptVars>>

\* check_queue finds the queue empty and returns
CheckQueueEnd ==
    /\ mpc = "check"
    /\ q_items = <<>>
    /\ mpc' = "idle"
    /\ UNCHANGED <<tau_executable, process, command_start_time, last_command,
                   msg_queue, q_items, mcmd, mstep, nSubmit, nRestart, tpc,
                   readerLocals, procVars, uiVars>>

\* --------------------------------------------------------- script stepper
\* line.strip() is empty
IsBlank(line) == Strip(line) = <<>>
\* not any(line.strip() for line in self.script_lines)
AllBlankNoStrip(lines) == \A i \in 1..Len(lines) : lines[i] = <<>>
AllBlank(lines) == \A i \in 1..Len(lines) : IsBlank(lines[i])
\* command.strip().startswith("#")
IsCommentNoStrip(line) == line # <<>> /\ Head(line) = "#"
IsComment(line) == Strip(line) # <<>> /\ Head(Strip(line)) = "#"

\* self.current_step_index = 0
LoadedIndexKept(old) == old
LoadedIndex(old) == 0

\* load_script with a file chosen in the dialog.  A file that cannot be read
\* shows the error box and changes nothing else.  Otherwise the lines
\* replace the script and the index is reset; a script of blank lines only
\* shows the "Empty File" box and the handler returns; any other enables the
\* step button, shows "Loaded" and logs the load.
LoadScript(lines, readable) ==
    /\ mpc = "idle"
    /\ nLoad' = nLoad + 1
    /\ IF ~readable
       THEN /\ dialog' = "Error"
            /\ UNCHANGED <<script_lines, current_step_index, step_btn,
                           script_status, repl_log, nLines>>
       ELSE /\ script_lines' = lines
            /\ nLines' = nLines + Len(lines)
            /\ current_step_index' = LoadedIndex(current_step_index)
            /\ IF AllBlank(lines)
               THEN /\ dialog' = "Empty File"
                    /\ UNCHANGED <<step_btn, script_status, repl_log>>
               ELSE /\ dialog' = "none"
                    /\ step_btn' = "normal"
                    /\ script_status' = Loaded
                    /\ repl_log' = Append(repl_log, ScriptLoadedLine)
    /\ UNCHANGED <<tau_executable, process, command_start_time, last_command,
                   msg_queue, q_items, mpc, mcmd, mstep, nSubmit, nRestart,
                   tpc, readerLocals, procVars, consumerVars, history_log>>

\* while index < len(script_lines): skip the blank line at index -- the
\* index (counted from 0) of the first line at or after i that is not blank,
\* len(lines) if there is none
SkipNone(lines, i) == i
RECURSIVE SkipBlank(_, _)
SkipBlank(lines, i) ==
    IF i < Len(lines) /\ IsBlank(lines[i + 1])
    THEN SkipBlank(lines, i + 1) ELSE i
\* the look-ahead after the step: temp_index, found the same way
LookAheadEnd(lines, i) == Len(lines)
RECURSIVE LookAhead(_, _)
LookAhead(lines, i) ==
    IF i < Len(lines) /\ IsBlank(lines[i + 1])
    THEN LookAhead(lines, i + 1) ELSE i

\* _finish_script()
FinishScript ==
    /\ script_status' = Finished
    /\ step_btn' = "disabled"

\* execute_next_step, the command of the step button.  The index skips the
\* blank lines; past the last line the script is finished.  Otherwise the
\* line is logged (a comment) or given to send_command as it is, the index
\* moves past it, and the look-ahead decides between the "Step" status and
\* _finish_script.  send_command's statements follow in their own steps;
\* the index and the status, which no other thread reads, are set here.
\* self.current_step_index += 1, after the line was logged or handed to
\* send_command, whatever send_command did with it
IndexAfterAccepted(i, accepted) == IF accepted THEN i + 1 ELSE i
IndexAfterStep(i, accepted) == i + 1

ExecuteNextStep ==
    /\ mpc = "idle"
    /\ LET i == SkipBlank(script_lines, current_step_index)
           n == Len(script_lines)
       IN IF i >= n
          THEN /\ current_step_index' = i
               /\ FinishScript
               /\ UNCHANGED <<tau_executable, process, command_start_time,
                              last_command, msg_queue, q_items, mainVars,
                              tpc, readerLocals, procVars, consumerVars,
                              widgetVars>>
          ELSE /\ LET command == script_lines[i + 1] IN
                    IF IsComment(command)
                    THEN /\ repl_log' = Append(repl_log,
                                               WLine(command, "comment"))
                         /\ history_log' = Append(history_log,
                                                  HistoryLine(command))
                         /\ UNCHANGED <<tau_executable, process,
                                        command_start_time, last_command,
                                        msg_queue, q_items, mainVars, tpc,
                                        readerLocals, procVars, consumerVars>>
                    ELSE SendCommand(command)
               /\ LET j == IndexAfterStep(i, IsComment(script_lines[i + 1])
                                               \/ Alive(process))
                  IN /\ current_step_index' = j
                     /\ IF LookAhead(script_lines, j) < n
                        THEN /\ script_status' = StepOf(j, n)
                             /\ UNCHANGED step_btn
                        ELSE FinishScript
    /\ UNCHANGED <<script_lines, dialog, nLoad, nLines>>

\* start_tau_thread(): a new thread that will run _run_process
StartThread(t) == tpc' = [tpc EXCEPT ![t] = "start"]

\* restart_process, first half: if self.process and self.process.poll() is
\* None: self.process.terminate().  Without a live process nothing is
\* terminated, the "Restarting" line is logged and the thread is started at
\* once.
RestartBegin ==
    /\ mpc = "idle"
    /\ nRestart' = nRestart + 1
    /\ IF Alive(process)
       THEN /\ pasked' = [pasked EXCEPT ![process] = TRUE]
            /\ mpc' = "restart"
            /\ UNCHANGED <<tpc, repl_log>>
       ELSE /\ repl_log' = Append(repl_log, RestartingLine)
            /\ StartThread(nRestart' + 1)
            /\ UNCHANGED <<pasked, mpc>>
    /\ UNCHANGED <<tau_executable, process, command_start_time, last_command,
                   msg_queue, q_items, mcmd, mstep, nSubmit, readerLocals,
                   palive, pstdin, pstdout, pread, preact, pout,
                   consumerVars, history_log, scriptVars>>

\* restart_process, second half: self.process = None; the "Restarting"
\* line; start_tau_thread()
RestartFinish ==
    /\ mpc = "restart"
    /\ process' = 0
    /\ repl_log' = Append(repl_log, RestartingLine)
    /\ StartThread(nRestart + 1)
    /\ mpc' = "idle"
    /\ UNCHANGED <<tau_executable, command_start_time, last_command,
                   msg_queue, q_items, mcmd, mstep, nSubmit, nRestart,
                   readerLocals, procVars,
                   consumerVars, history_log, scriptVars>>

\* ----------------------------------------------------------- reader thread
\* except Exception: put the error line; finally: put PROCESS FINISHED
Raise(t) ==
    /\ PutAll(<<ErrorEvent(t), FinishedEvent(t)>>)
    /\ tpc' = [tpc EXCEPT ![t] = "done"]

\* _run_process up to the loop: without an executable path the error line is
\* put and the thread returns; otherwise Popen either raises or yields the
\* child, which is stored in self.process, and the two start messages are put.
RunStart(t) ==
    /\ tpc[t] = "start"
    /\ IF ~tau_executable
       THEN /\ Put(ErrorEvent(t))
            /\ tpc' = [tpc EXCEPT ![t] = "done"]
            /\ UNCHANGED <<process, palive>>
       ELSE \/ /\ palive' = [palive EXCEPT ![t] = "alive"]
               /\ process' = t
               /\ PutAll(StartedEvents(t))
               /\ tpc' = [tpc EXCEPT ![t] = "loop"]
            \/ /\ Raise(t)
               /\ UNCHANGED <<process, palive>>
    /\ UNCHANGED <<tau_executable, command_start_time, last_command, mainVars,
                   readerLocals, pasked, pstdin, pstdout, pread, preact, pout,
                   uiVars>>

\* while True: the expression self.process.stdout is evaluated; on None the
\* attribute access raises
LoopHead(t) ==
    /\ tpc[t] = "loop"
    /\ IF process = 0
       THEN /\ Raise(t)
            /\ UNCHANGED tcur
       ELSE /\ tcur' = [tcur EXCEPT ![t] = process]
            /\ tpc' = [tpc EXCEPT ![t] = "readline"]
            /\ UNCHANGED <<msg_queue, q_items>>
    /\ UNCHANGED <<tau_executable, process, command_start_time, last_command,
                   mainVars, tline, tdur, procVars,
                   uiVars>>

\* where the thread goes with the cleaned text of a line it has read:
\* if not cleaned_line: continue; if cleaned_line == "tau>": continue
AfterClean(cleaned) ==
    IF cleaned = <<>> THEN "loop"
    ELSE IF IsPrompt(cleaned) THEN "loop"
    ELSE "echotest"

\* line = <that stdout>.readline(): blocks until the pipe holds a line or is
\* at end-of-stream (the child has exited and the pipe is drained).  The pipe
\* is opened with text=True and no error handler: bytes that are not text
\* in the locale's encoding make readline raise.
ReadLine(t) ==
    /\ tpc[t] = "readline"
    /\ LET p == tcur[t] IN
       IF pread[p] < Len(pstdout[p])
       THEN LET ln == pstdout[p][pread[p] + 1]
                cleaned == Clean(ln.raw)
            IN /\ pread' = [pread EXCEPT ![p] = @ + 1]
               /\ IF ln.raw = LineUndecodable
                  THEN /\ Raise(t)
                       /\ UNCHANGED tline
                  ELSE /\ tpc' = [tpc EXCEPT ![t] = AfterClean(cleaned)]
                       /\ tline' = [tline EXCEPT ![t] =
                                      IF AfterClean(cleaned) = "echotest"
                                      THEN [text |-> cleaned,
                                            cause |-> ln.cause, from |-> p]
                                      ELSE NoLine]
                       /\ UNCHANGED <<msg_queue, q_items>>
       ELSE /\ palive[p] = "dead"
            /\ tpc' = [tpc EXCEPT ![t] = "pollcheck"]
            /\ UNCHANGED <<pread, tline, msg_queue, q_items>>
    /\ UNCHANGED <<tau_executable, process, command_start_time, last_command,
                   mainVars, tcur, tdur,
                   palive, pasked, pstdin, pstdout, preact, pout,
                   uiVars>>

\* if not line and self.process.poll() is not None: break -- with the empty
\* line of end-of-stream; self.process is read again here
PollCheck(t) ==
    /\ tpc[t] = "pollcheck"
    /\ IF process = 0 THEN Raise(t)
       ELSE IF palive[process] = "dead"
       THEN /\ Put(FinishedEvent(t))
            /\ tpc' = [tpc EXCEPT ![t] = "done"]
       ELSE /\ tpc' = [tpc EXCEPT ![t] = "loop"]
            /\ UNCHANGED <<msg_queue, q_items>>
    /\ UNCHANGED <<tau_executable, process, command_start_time, last_command,
                   mainVars, readerLocals, procVars,
                   uiVars>>

\* is_echo / is_prompt_and_echo are computed from self.last_command
EchoTest(t) ==
    /\ tpc[t] = "echotest"
    /\ tpc' = [tpc EXCEPT ![t] =
                 IF IsEcho(tline[t].text, last_command)
                 THEN "clear_last" ELSE "readtime"]
    /\ UNCHANGED <<tau_executable, process, command_start_time, last_command,
                   msg_queue, q_items, mainVars, readerLocals, procVars,
                   uiVars>>

\* self.last_command = None; continue
LastKept(last) == last
LastAfterEcho(last) == <<>>

ClearLast(t) ==
    /\ tpc[t] = "clear_last"
    /\ last_command' = LastAfterEcho(last_command)
    /\ tpc' = [tpc EXCEPT ![t] = "loop"]
    /\ tline' = [tline EXCEPT ![t] = NoLine]
    /\ UNCHANGED <<tau_executable, process, command_start_time, msg_queue, q_items,
                   mainVars, tcur, tdur, procVars,
                   uiVars>>

\* duration = 0.0; if self.command_start_time: duration = now - it
ReadTime(t) ==
    /\ tpc[t] = "readtime"
    /\ tdur' = [tdur EXCEPT ![t] = command_start_time]
    /\ tpc' = [tpc EXCEPT ![t] = "emit"]
    /\ UNCHANGED <<tau_executable, process, command_start_time, last_command,
                   msg_queue, q_items, mainVars, tcur, tline, procVars,
                   uiVars>>

\* (inside that if) self.command_start_time = None; then the two puts
StartTimeKept(dur, start) == start
StartTimeAfterEmit(dur, start) == IF dur # 0 THEN 0 ELSE start

Emit(t) ==
    /\ tpc[t] = "emit"
    /\ command_start_time' = StartTimeAfterEmit(tdur[t], command_start_time)
    /\ PutAll(<<ReplLine(tline[t], t), RecvEvent(tline[t], tdur[t], t)>>)
    /\ tpc' = [tpc EXCEPT ![t] = "loop"]
    /\ tline' = [tline EXCEPT ![t] = NoLine]
    /\ tdur' = [tdur EXCEPT ![t] = 0]
    /\ UNCHANGED <<tau_executable, process, last_command, mainVars, tcur,
                   procVars,
                   uiVars>>

\* ----------------------------------------------------------- child process
\* the child takes the next line of its standard input
ProcConsume(p) ==
    /\ palive[p] = "alive"
    /\ pstdin[p] # <<>>
    /\ preact' = [preact EXCEPT ![p] = Head(pstdin[p])]
    /\ pstdin' = [pstdin EXCEPT ![p] = Tail(@)]
    /\ UNCHANGED <<tau_executable, process, command_start_time, last_command,
                   msg_queue, q_items, mainVars, tpc, readerLocals,
                   palive, pasked, pstdout, pread, pout,
                   uiVars>>

\* what the child may write: a prompt, response text, a blank line, or the
\* input it last took, bare or behind the prompt
Echoes(p) ==
    IF preact[p].id # 0
    THEN {preact[p].text, PromptAndEcho(preact[p].text)} ELSE {}
OutLines(p) == {PromptToken, LineY} \cup Echoes(p)
OutLinesRestart(p) == {LineBlank} \cup Echoes(p)
OutLinesDecode(p) == {LineY, LineUndecodable} \cup Echoes(p)

ProcOutput(p, raw) ==
    /\ palive[p] = "alive"
    /\ pout' = pout + 1
    /\ pstdout' = [pstdout EXCEPT ![p] =
                     Append(@, [raw |-> raw, cause |-> preact[p].id])]
    /\ UNCHANGED <<tau_executable, process, command_start_time, last_command,
                   msg_queue, q_items, mainVars, tpc, readerLocals,
                   palive, pasked, pstdin, pread, preact,
                   uiVars>>

\* the child exits, by itself or on the signal of terminate(); what it had
\* not read of its input is lost
ProcExit(p) ==
    /\ palive[p] = "alive"
    /\ palive' = [palive EXCEPT ![p] = "dead"]
    /\ pstdin' = [pstdin EXCEPT ![p] = <<>>]
    /\ preact' = [preact EXCEPT ![p] = NoInput]
    /\ UNCHANGED <<tau_executable, process, command_start_time, last_command,
                   msg_queue, q_items, mainVars, tpc, readerLocals,
                   pasked, pstdout, pread, pout,
                   uiVars>>

\* ----------------------------------------------------------- specification
\* One session: the first reader thread, its child, the user's commands.
Next ==
    \/ \E cmd \in Cmds :
          nSubmit < MaxSubmits /\ nSubmit + pout < MaxInputs /\ SubmitBegin(cmd)
    \/ SendStep
    \/ RunStart(1)
    \/ LoopHead(1)
    \/ ReadLine(1)
    \/ PollCheck(1)
    \/ EchoTest(1)
    \/ ClearLast(1)
    \/ ReadTime(1)
    \/ Emit(1)
    \/ ProcConsume(1)
    \/ \E raw \in OutLines(1) :
          nSubmit + pout < MaxInputs /\ ProcOutput(1, raw)
    \/ ProcExit(1)

Spec == Init /\ [][Next]_vars

\* Sessions replaced by restart_process: every reader thread and child.  In
\* the budget of a run a restart counts for two inputs.
NextRestart ==
    \/ \E cmd \in CmdsRestart :
          nSubmit + pout + 2 * nRestart < MaxInputs /\ SubmitBegin(cmd)
    \/ SendStep
    \/ /\ nRestart < MaxRestarts
       /\ nSubmit + pout + 2 * nRestart + 1 < MaxInputs
       /\ RestartBegin
    \/ RestartFinish
    \/ \E t \in Threads : RunStart(t)
    \/ \E t \in Threads : LoopHead(t)
    \/ \E t \in Threads : ReadLine(t)
    \/ \E t \in Threads : PollCheck(t)
    \/ \E t \in Threads : EchoTest(t)
    \/ \E t \in Threads : ClearLast(t)
    \/ \E t \in Threads : ReadTime(t)
    \/ \E t \in Threads : Emit(t)
    \/ \E p \in Threads : ProcConsume(p)
    \/ \E p \in Threads : \E raw \in OutLinesRestart(p) :
          nSubmit + pout + 2 * nRestart < MaxInputs /\ ProcOutput(p, raw)
    \/ \E p \in Threads : ProcExit(p)

SpecRestart == Init /\ [][NextRestart]_vars

\* One session whose child also writes bytes that are not text.
NextDecode ==
    \/ \E cmd \in CmdsRestart :
          nSubmit + pout < MaxRestartInputs /\ SubmitBegin(cmd)
    \/ SendStep
    \/ RunStart(1)
    \/ LoopHead(1)
    \/ ReadLine(1)
    \/ PollCheck(1)
    \/ EchoTest(1)
    \/ ClearLast(1)
    \/ ReadTime(1)
    \/ Emit(1)
    \/ ProcConsume(1)
    \/ \E raw \in OutLinesDecode(1) :
          nSubmit + pout < MaxRestartInputs /\ ProcOutput(1, raw)
    \/ ProcExit(1)

SpecDecode == Init /\ [][NextDecode]_vars

\* One session with the consumer: the main thread and the reader thread put,
\* check_queue takes.
OutLinesQueue(p) == {LineY} \cup Echoes(p)
NextQueue ==
    \/ \E cmd \in CmdsRestart :
          nSubmit + pout < MaxRestartInputs /\ SubmitBegin(cmd)
    \/ SendStep
    \/ CheckQueue
    \/ CheckQueueEnd
    \/ RunStart(1)
    \/ LoopHead(1)
    \/ ReadLine(1)
    \/ PollCheck(1)
    \/ EchoTest(1)
    \/ ClearLast(1)
    \/ ReadTime(1)
    \/ Emit(1)
    \/ ProcConsume(1)
    \/ \E raw \in OutLinesQueue(1) :
          nSubmit + pout < MaxRestartInputs /\ ProcOutput(1, raw)
    \/ ProcExit(1)

SpecQueue == Init /\ [][NextQueue]_vars

\* The script stepper over one session: files are loaded and stepped
\* through while the child is absent, alive or gone.
NextScript ==
    \/ \E lines \in Scripts :
          /\ nLoad < MaxLoads
          /\ nLines + Len(lines) <= MaxScriptLines
          /\ LoadScript(lines, TRUE)
    \/ nLoad < MaxLoads /\ LoadScript(<<>>, FALSE)
    \/ ExecuteNextStep
    \/ SendStep
    \/ RunStart(1)
    \/ ProcExit(1)

SpecScript == Init /\ [][NextScript]_vars

\* One session whose child writes one colored line, which the reader cleans
\* and reports.
NextSanitizer ==
    \/ RunStart(1)
    \/ LoopHead(1)
    \/ ReadLine(1)
    \/ PollCheck(1)
    \/ EchoTest(1)
    \/ ReadTime(1)
    \/ Emit(1)
    \/ \E raw \in OutLinesSanitizer : pout = 0 /\ ProcOutput(1, raw)
    \/ ProcExit(1)

SpecSanitizer == Init /\ [][NextSanitizer]_vars

\* Restart upon restart with silent children: restart_process on live, dead
\* and absent sessions, the reader threads at end-of-stream.  The first child may exit by itself; the later ones run
\* until terminate() signals them.
NextTerminate ==
    \/ nRestart < MaxTerminateRestarts /\ RestartBegin
    \/ RestartFinish
    \/ \E t \in Threads : RunStart(t)
    \/ \E t \in Threads : LoopHead(t)
    \/ \E t \in Threads : ReadLine(t)
    \/ \E t \in Threads : PollCheck(t)
    \/ \E p \in Threads : (p = 1 \/ pasked[p]) /\ ProcExit(p)

SpecTerminate == Init /\ [][NextTerminate]_vars

\* The same runs under scheduling: a thread that can take its next step
\* takes it eventually (the reader threads and the main thread inside a
\* handler), and a child that was sent the signal of terminate() exits.
\* A child left alone may run forever, and the user may stop acting.
ReaderNext(t) ==
    \/ RunStart(t) \/ LoopHead(t) \/ ReadLine(t) \/ PollCheck(t)
    \/ EchoTest(t) \/ ClearLast(t) \/ ReadTime(t) \/ Emit(t)
Scheduling ==
    /\ \A t \in Threads : WF_vars(ReaderNext(t))
    /\ WF_vars(SendStep) /\ WF_vars(RestartFinish)
    /\ \A p \in Threads : WF_vars(pasked[p] /\ ProcExit(p))
SpecRestartFair == Init /\ [][NextRestart]_vars /\ Scheduling

\* ---------------------------------------------------- reading the history
\* the steps of the threads, as seen in one transition
ReaderStep(t, from) == tpc[t] = from /\ tpc'[t] # from
MainSendStep(what) ==
    mpc = "send" /\ mstep' # mstep /\ SendCommandSteps[mstep] = what
\* the cleaned text of the line a readline of thread t is about to return
HasNextLine(t) == pread[tcur[t]] < Len(pstdout[tcur[t]])
NextCleaned(t) == Clean(pstdout[tcur[t]][pread[tcur[t]] + 1].raw)

IsResponse(e) == e.target = "repl" /\ e.type = "line"
IsFromChild(e) == e.type \in {"line", "recv"}
SendsOf(k) == {i \in 1..Len(msg_queue) :
                 msg_queue[i].type = "send" /\ msg_queue[i].id = k}
\* the texts of the response-line events, in queue order
RECURSIVE ResponseTexts(_)
ResponseTexts(q) ==
    IF q = <<>> THEN <<>>
    ELSE (IF IsResponse(Head(q)) THEN <<Head(q).text>> ELSE <<>>)
         \o ResponseTexts(Tail(q))
RECURSIVE ResponseTags(_)
ResponseTags(q) ==
    IF q = <<>> THEN <<>>
    ELSE (IF IsResponse(Head(q)) THEN <<Head(q).tag>> ELSE <<>>)
         \o ResponseTags(Tail(q))

\* One command c was accepted, the only child then wrote exactly
\* "tau> " + c, then the lines rs, (then "tau>" if closed), every line in
\* reaction to c, and the reader has handled them all.
Framed(c, n, closed) ==
    LET out == pstdout[1]
        last == IF closed THEN n + 2 ELSE n + 1
    IN /\ nSubmit = 1 /\ mpc = "idle"
       /\ Cardinality(SendsOf(1)) = 1
       /\ \A i \in SendsOf(1) : msg_queue[i].text = c
       /\ Len(out) = last /\ pread[1] = last
       /\ tpc[1] \in {"loop", "readline"}
       /\ \A i \in 1..last : out[i].cause = 1
       /\ out[1].raw = PromptAndEcho(c)
       /\ closed => out[last].raw = PromptToken
       /\ \A i \in 2..(n + 1) :
             Clean(out[i].raw) \notin {<<>>, PromptToken, c, PromptAndEcho(c)}

\* ------------------------------------------------------------------ claims
\* C1: a command c submitted alone on a live session, answered by the lines
\* "tau> " + c, r1..rn, "tau>", yields exactly the response-line events
\* r1..rn in order, none for the echo and none for the closing prompt.
C1_Framing ==
    \A c \in Cmds : \A n \in 0..MaxInputs :
        Framed(c, n, TRUE) =>
            ResponseTexts(msg_queue)
              = [i \in 1..n |-> Clean(pstdout[1][i + 1].raw)]

C3_PromptDiscard ==
    [][/\ \A t \in Threads :
            ( /\ ReaderStep(t, "readline") /\ HasNextLine(t)
              /\ NextCleaned(t) = PromptToken )
            => /\ msg_queue' = msg_queue
               /\ last_command' = last_command
               /\ command_start_time' = command_start_time
               /\ tpc'[t] = "loop" /\ tline'[t] = NoLine
       /\ \A i \in 1..Len(msg_queue') :
            IsFromChild(msg_queue'[i]) => msg_queue'[i].text # PromptToken
      ]_vars
\* a prompt line has been read while "tau>" itself was pending, and is gone
C3_Witness ==
    /\ last_command = <<PromptToken>> /\ command_start_time = 1
    /\ pread[1] = 1 /\ Clean(pstdout[1][1].raw) = PromptToken
    /\ tpc[1] = "loop"
    /\ \A i \in 1..Len(msg_queue) : ~IsFromChild(msg_queue[i])

\* C4: the first response line put after a recognized echo is marked as the
\* start of a response block and the next one as a continuation: the two
\* events differ in their mark (the tag is the only field that could hold it).
C4_BlockMarking ==
    \A c \in Cmds :
        Framed(c, 2, FALSE) /\ Len(ResponseTags(msg_queue)) = 2
            => ResponseTags(msg_queue)[1] # ResponseTags(msg_queue)[2]

\* C5 as stated: with p pending, p = "tau>" included, a line equal to p or to
\* "tau> " + p is never discarded as something else, and is found to be the
\* echo when tested.
C5_EchoAlways ==
    [][\A t \in Threads :
        /\ ( /\ ReaderStep(t, "readline") /\ HasNextLine(t)
             /\ last_command # <<>>
             /\ NextCleaned(t) \in {last_command[1],
                                    PromptAndEcho(last_command[1])} )
           => tpc'[t] = "echotest"
        /\ ( /\ ReaderStep(t, "echotest") /\ last_command # <<>>
             /\ tline[t].text \in {last_command[1],
                                   PromptAndEcho(last_command[1])} )
           => tpc'[t] = "clear_last"
      ]_vars
\* C5 amended: the same for every line other than the bare "tau>"; a bare
\* "tau>" is discarded as a prompt and the pending text kept, also when the
\* pending text is "tau>" (whose echo is then only "tau> tau>").
C5_EchoUnlessPrompt ==
    [][\A t \in Threads :
        /\ ( /\ ReaderStep(t, "readline") /\ HasNextLine(t)
             /\ last_command # <<>>
             /\ NextCleaned(t) \in {last_command[1],
                                    PromptAndEcho(last_command[1])} )
           => IF NextCleaned(t) = PromptToken
              THEN tpc'[t] = "loop" /\ last_command' = last_command
              ELSE tpc'[t] = "echotest" /\ tline'[t].text = NextCleaned(t)
        /\ ( /\ ReaderStep(t, "echotest") /\ last_command # <<>>
             /\ tline[t].text \in {last_command[1],
                                   PromptAndEcho(last_command[1])} )
           => tpc'[t] = "clear_last" /\ msg_queue' = msg_queue
      ]_vars
\* "tau>" was pending and the line "tau> tau>" has been found to be its echo
C5_Witness ==
    /\ tpc[1] = "clear_last" /\ last_command = <<PromptToken>>
    /\ tline[1].text = PromptAndEcho(PromptToken)

\* C6: an accepted submit is never held back by a pending command: it goes on
\* to its statements, which overwrite the stamp and the pending text with
\* those of this submit; and the pending text changes in no other way than
\* by a submit (to its text) or by a recognized echo (to None).
C6_PendingSlot ==
    [][/\ MainSendStep("last") => last_command' = <<mcmd>>
       /\ MainSendStep("time") => command_start_time' = nSubmit
       /\ (nSubmit' # nSubmit /\ Alive(process))
          => \/ mpc' = "send" /\ mstep' = 1
                /\ Lower(Strip(mcmd')) \notin {<<"c","l","e","a","r">>,
                                               <<"c","l","s">>}
             \/ mpc' = "idle" /\ pstdin' # pstdin
       /\ last_command' # last_command
          => \/ MainSendStep("last")
             \/ \E t \in Threads :
                  ReaderStep(t, "clear_last") /\ last_command' = <<>>
      ]_vars
\* "a" then "a " submitted, nothing read yet: only "a " is pending
C6_Witness ==
    /\ nSubmit = 2 /\ mpc = "idle" /\ pread[1] = 0
    /\ \E i \in SendsOf(1) : msg_queue[i].text = CmdA
    /\ \E i \in SendsOf(2) : msg_queue[i].text = CmdATrail
    /\ last_command = <<CmdATrail>> /\ command_start_time = 2

\* C7: a call of send_command with a live process either goes on with a
\* command that is not clear/cls, or (clear/cls) writes one bare newline and
\* leaves last_command, command_start_time and the queue as they are.
C7_ClearSpecialCase ==
    [][(nSubmit' # nSubmit /\ Alive(process))
         => \/ /\ mpc' = "send"
               /\ Lower(Strip(mcmd')) \notin {<<"c","l","e","a","r">>,
                                              <<"c","l","s">>}
               /\ pstdin' = pstdin
            \/ /\ mpc' = "idle"
               /\ pstdin' = [pstdin EXCEPT ![process] =
                               Append(@, [text |-> <<>>, id |-> 0])]
               /\ last_command' = last_command
               /\ command_start_time' = command_start_time
               /\ msg_queue' = msg_queue
      ]_vars
\* " CLS" submitted while "a" was pending: a newline written, "a" still
\* pending with its stamp, one send event only
C7_Witness ==
    /\ nSubmit = 2 /\ mpc = "idle" /\ Alive(1)
    /\ last_command = <<CmdA>> /\ command_start_time = 1
    /\ pstdin[1] = <<[text |-> CmdA, id |-> 1], [text |-> <<>>, id |-> 0]>>
    /\ SendsOf(1) # {} /\ SendsOf(2) = {}

\* C8: each submit has at most one send event, it is in the queue once the
\* put statement is passed, with the command's text, and whatever shows that
\* the command was written (a line of a child's input, the input a child
\* reacts to, a line or an event in reaction to it) finds it already there,
\* before every event in reaction to the command.
WrittenStamps ==
    UNION {{pstdin[p][i].id : i \in 1..Len(pstdin[p])} : p \in Threads}
    \cup {preact[p].id : p \in Threads}
    \cup UNION {{pstdout[p][i].cause : i \in 1..Len(pstdout[p])} :
                  p \in Threads}
C8_SendFirst ==
    /\ \A k \in 1..nSubmit : Cardinality(SendsOf(k)) <= 1
    /\ \A k \in WrittenStamps \ {0} : SendsOf(k) # {}
    /\ \A i \in 1..Len(msg_queue) :
         (IsFromChild(msg_queue[i]) /\ msg_queue[i].cause # 0)
         => \E j \in SendsOf(msg_queue[i].cause) : j < i
    /\ \A p \in Threads : \A i \in 1..Len(pstdin[p]) :
         pstdin[p][i].id # 0
         => \A j \in SendsOf(pstdin[p][i].id) :
               msg_queue[j].text = pstdin[p][i].text
\* a response line in reaction to the second command is in the queue
C8_Witness ==
    \E i \in 1..Len(msg_queue) :
        /\ IsResponse(msg_queue[i]) /\ msg_queue[i].cause = 2
        /\ \E j \in SendsOf(2) : j < i

\* C9: at most one child that has not been asked to terminate is alive.
C9_SingleLiveSession ==
    Cardinality({p \in Threads : palive[p] = "alive" /\ ~pasked[p]}) <= 1

\* C10: the reader thread of a child that restart_process has terminated
\* never waits on the output of another child, and no event it puts for a
\* line is for a line of another child.
C10_NoStaleAttribution ==
    /\ \A t \in Threads :
         (pasked[t] /\ tpc[t] = "readline") => tcur[t] = t
    /\ \A i \in 1..Len(msg_queue) :
         (IsFromChild(msg_queue[i]) /\ pasked[msg_queue[i].by])
         => msg_queue[i].from = msg_queue[i].by

\* the events thread t has put, in put order
RECURSIVE EventsBy(_, _)
EventsBy(q, t) ==
    IF q = <<>> THEN <<>>
    ELSE (IF Head(q).by = t THEN <<Head(q)>> ELSE <<>>) \o EventsBy(Tail(q), t)
IsFinished(e) == e.type = "info" /\ e.text = <<"PROCESS FINISHED">>
FinishedCount(t) ==
    Cardinality({i \in 1..Len(msg_queue) :
                   msg_queue[i].by = t /\ IsFinished(msg_queue[i])})

\* C11: once the child a reader thread spawned has exited and all its output
\* has been read, that thread eventually ends, having put exactly one
\* PROCESS FINISHED event, the last event it put.
C11_ReaderTerminates ==
    \A t \in Threads :
        (palive[t] = "dead" /\ pread[t] = Len(pstdout[t]))
        ~> ( /\ tpc[t] = "done"
             /\ FinishedCount(t) = 1
             /\ IsFinished(EventsBy(msg_queue, t)[Len(EventsBy(msg_queue, t))]) )

\* C12: restart_process on a session that is dead or absent terminates
\* nothing: the call puts no event, signals no child and leaves self.process
\* as it is; no reader thread ever puts a second PROCESS FINISHED; and as
\* long as no live child was terminated, no reader of a spawned child puts an
\* error.
IsError(e) == e.type = "error"
C12_TerminateIdempotent ==
    [][/\ (nRestart' # nRestart /\ (process = 0 \/ palive[process] # "alive"))
          => /\ msg_queue' = msg_queue /\ q_items' = q_items
             /\ palive' = palive /\ pasked' = pasked
             /\ process' = process /\ mpc' = "idle"
       /\ \A t \in Threads :
            Cardinality({i \in 1..Len(msg_queue') :
                           msg_queue'[i].by = t /\ IsFinished(msg_queue'[i])}) <= 1
       /\ (\A p \in Threads : ~pasked'[p])
          => \A i \in 1..Len(msg_queue') :
                IsError(msg_queue'[i]) => palive'[msg_queue'[i].by] = "none"
      ]_vars
\* the first restart terminated child 1, whose reader has ended; the second
\* came before another child was spawned and terminated nothing
C12_Witness ==
    /\ nRestart = 2 /\ mpc = "idle" /\ process = 0
    /\ pasked[1] /\ palive[1] = "dead" /\ tpc[1] = "done"
    /\ FinishedCount(1) = 1
    /\ \A p \in Threads \ {1} : ~pasked[p] /\ palive[p] = "none"

\* C13: a reader thread that spawned a child ends only at the end of that
\* child's output with the child no longer alive: an error on one line
\* (bytes that cannot be decoded) does not end it.
C13_LoopSurvivesLineError ==
    \A t \in Threads :
        (tpc[t] = "done" /\ palive[t] # "none")
        => palive[t] = "dead" /\ pread[t] = Len(pstdout[t])

\* C14: a call of send_command while self.process is None or has exited adds
\* one error-tagged line to the repl widget, writes nothing to any child,
\* puts no event and leaves last_command and command_start_time as they are.
C14_SubmitOnDeadSession ==
    [][(nSubmit' # nSubmit /\ (process = 0 \/ palive[process] # "alive"))
         => /\ Len(repl_log') = Len(repl_log) + 1
            /\ SubSeq(repl_log', 1, Len(repl_log)) = repl_log
            /\ repl_log'[Len(repl_log')].tag = "error"
            /\ pstdin' = pstdin
            /\ msg_queue' = msg_queue /\ q_items' = q_items
            /\ last_command' = last_command
            /\ command_start_time' = command_start_time
            /\ mpc' = "idle"
      ]_vars
\* "a" was accepted, the child exited, the next submit was refused: "a" is
\* still pending with its stamp and the refusal is the last line shown
C14_Witness ==
    /\ nSubmit = 2 /\ mpc = "idle" /\ nRestart = 0
    /\ process = 1 /\ palive[1] = "dead"
    /\ last_command = <<CmdA>> /\ command_start_time = 1
    /\ SendsOf(1) # {} /\ SendsOf(2) = {}
    /\ repl_log # <<>> /\ repl_log[Len(repl_log)] = NotRunningLine

\* the items of q with target debug_data, in order
RECURSIVE DebugData(_)
DebugData(q) ==
    IF q = <<>> THEN <<>>
    ELSE (IF Head(q).target = "debug_data" THEN <<Head(q)>> ELSE <<>>)
         \o DebugData(Tail(q))

\* C15: the tuples taken from the queue, followed by those still in it, are
\* the tuples put, in put order (nothing lost, nothing taken twice, the order
\* of every thread's puts kept); each taken debug_data message is in
\* debug_events once, in that order; and a thread that is at a put can take
\* that step whatever the queue holds.
C15_QueueFifo ==
    /\ got \o q_items = msg_queue
    /\ debug_events = DebugData(got)
    /\ \A t \in Threads : tpc[t] = "emit" => ENABLED Emit(t)
    /\ mpc = "send" => ENABLED SendStep
\* the main thread's send event and the reader's two events for a line have
\* been taken, while the reader's PROCESS FINISHED is still queued
C15_Witness ==
    /\ Len(got) >= 5 /\ q_items # <<>>
    /\ \E i, j \in 1..Len(got) :
          /\ got[i].by = 0 /\ got[i].type = "send"
          /\ got[j].by = 1 /\ got[j].type = "recv"
    /\ IsFinished(q_items[Len(q_items)])

\* ------------------------------------------------- claims, script stepper
\* a line of white space only; a line whose first other character is "#"
BlankLine(l) == \A i \in 1..Len(l) : l[i] \in SpaceChars
CommentLine(l) ==
    \E i \in 1..Len(l) :
        l[i] = "#" /\ \A j \in 1..(i - 1) : l[j] \in SpaceChars
\* the positions (from 1) after the first i lines that hold a non-blank line
NonBlankAfter(lines, i) ==
    {k \in (i + 1)..Len(lines) : ~BlankLine(lines[k])}
Min(S) == CHOOSE k \in S : \A m \in S : k <= m
\* a handler of the stepper has run and it was not load_script (in the runs
\* of SpecScript the only other one is execute_next_step)
StepTaken ==
    /\ mpc = "idle" /\ nLoad' = nLoad
    /\ <<current_step_index, script_status, step_btn, repl_log, history_log,
         nSubmit>>' # <<current_step_index, script_status, step_btn, repl_log,
                        history_log, nSubmit>>

\* C16: the index is always within 0..len(script_lines); it never decreases
\* and the script never changes except in a call of load_script, which
\* leaves the index at 0 when it replaces the script.
C16_CursorInvariant ==
    [][/\ current_step_index \in 0..Len(script_lines)
       /\ current_step_index' \in 0..Len(script_lines')
       /\ nLoad' = nLoad
          => /\ current_step_index' >= current_step_index
             /\ script_lines' = script_lines
       /\ (nLoad' # nLoad /\ dialog' # "Error") => current_step_index' = 0
       /\ (nLoad' # nLoad /\ dialog' = "Error")
          => /\ current_step_index' = current_step_index
             /\ script_lines' = script_lines
      ]_vars
\* a second file is loaded after a command of the first was stepped: the
\* index is back at 0
C16_Witness ==
    /\ nLoad = 2 /\ nSubmit = 1 /\ script_status = Loaded
    /\ current_step_index = 0 /\ script_lines # <<>>
    /\ nLines > Len(script_lines)

\* C17: a call of execute_next_step that finds a non-blank line at or after
\* the index handles the first such line and no other: a comment is logged,
\* any other line is given to send_command once, as it is; the index is left
\* one past that line; the status is "Step: index/len" if a non-blank line
\* remains after it and "Script finished" if none does.  A call that finds
\* no such line handles nothing and reports "Script finished".
C17_StepSemantics ==
    [][StepTaken =>
        LET rest == NonBlankAfter(script_lines, current_step_index) IN
        IF rest = {}
        THEN /\ nSubmit' = nSubmit /\ widgetVars' = widgetVars
             /\ script_status' = Finished
        ELSE LET k == Min(rest)
                 line == script_lines[k]
             IN /\ current_step_index' = k
                /\ IF CommentLine(line)
                   THEN /\ nSubmit' = nSubmit
                        /\ repl_log' = Append(repl_log, WLine(line, "comment"))
                   ELSE /\ nSubmit' = nSubmit + 1
                        /\ (process # 0 /\ palive[process] = "alive")
                           => /\ mpc' = "send" /\ mcmd' = line
                              /\ history_log' =
                                   Append(history_log, WLine(<<"» ">> \o line, "None"))
                /\ script_status' =
                     IF NonBlankAfter(script_lines, k) # {}
                     THEN [text |-> "Step", at |-> k, of |-> Len(script_lines)]
                     ELSE Finished
      ]_vars
\* the script "#", "", "a": the comment was shown with the status 1/3, then
\* "a" was submitted and the script finished
C17_Witness ==
    /\ script_lines = <<ScriptComment, ScriptEmpty, CmdA>>
    /\ current_step_index = 3 /\ script_status = Finished
    /\ nSubmit = 1 /\ mpc = "idle"
    /\ history_log = <<HistoryLine(ScriptComment), HistoryLine(CmdA)>>
    /\ \E i \in 1..Len(pstdin[1]) : pstdin[1][i].text = CmdA
\* the same script after its first step only
C17_WitnessProgress ==
    /\ script_lines = <<ScriptComment, ScriptEmpty, CmdA>>
    /\ current_step_index = 1 /\ script_status = StepOf(1, 3)
    /\ nSubmit = 0 /\ history_log = <<HistoryLine(ScriptComment)>>

\* what send_command was given: the command in its hands, the input lines of
\* the child, the send events
SubmittedTexts ==
    (IF mpc = "send" THEN {mcmd} ELSE {})
    \cup {pstdin[1][i].text : i \in 1..Len(pstdin[1])}
    \cup {msg_queue[i].text : i \in {j \in 1..Len(msg_queue) :
                                        msg_queue[j].type = "send"}}

\* C18: a step that handles a comment line shows it in the repl widget with
\* the comment tag and adds it to the history widget, and calls send_command
\* for nothing; no comment line and no blank line is ever given to
\* send_command, and no blank line is ever shown in either widget.
C18_CommentsAndBlanks ==
    [][/\ StepTaken =>
            LET rest == NonBlankAfter(script_lines, current_step_index) IN
            (rest # {} /\ CommentLine(script_lines[Min(rest)]))
            => /\ repl_log' = Append(repl_log,
                                 WLine(script_lines[Min(rest)], "comment"))
               /\ history_log' =
                    Append(history_log,
                           WLine(<<"» ">> \o script_lines[Min(rest)], "None"))
               /\ nSubmit' = nSubmit /\ mpc' = "idle"
               /\ pstdin' = pstdin /\ msg_queue' = msg_queue
               /\ last_command' = last_command
               /\ command_start_time' = command_start_time
       /\ \A c \in SubmittedTexts' : ~CommentLine(c) /\ ~BlankLine(c)
       /\ \A i \in 1..Len(repl_log') :
            repl_log'[i].tag = "comment" => ~BlankLine(repl_log'[i].text)
       /\ \A i \in 1..Len(history_log') : \A l \in ScriptLineSet :
            BlankLine(l) => history_log'[i].text # <<"» ">> \o l
      ]_vars
\* the script " #", " ", "a" with a live child: the indented comment is in
\* both widgets, only "a" was written to the child
C18_Witness ==
    /\ script_lines = <<ScriptCommentIndented, ScriptSpace, CmdA>>
    /\ current_step_index = 3 /\ mpc = "idle" /\ nSubmit = 1
    /\ repl_log = <<ScriptLoadedLine, WLine(ScriptCommentIndented, "comment")>>
    /\ history_log = <<HistoryLine(ScriptCommentIndented), HistoryLine(CmdA)>>
    /\ pstdin[1] = <<[text |-> CmdA, id |-> 1]>>

\* C19: while the status is "Script finished" and load_script is not
\* called, nothing is given to send_command, nothing is added to the
\* widgets and the status stays: a further execute_next_step only reports
\* "Script finished" again.
C19_FinishedTerminal ==
    [][(script_status = Finished /\ mpc = "idle" /\ nLoad' = nLoad)
         => /\ nSubmit' = nSubmit /\ mpc' = "idle"
            /\ widgetVars' = widgetVars
            /\ script_status' = Finished /\ step_btn' = "disabled"
      ]_vars
\* "a" then a line of white space: the step for "a" finished the script
\* with the index at 1; a further call has moved it over the blank line and
\* done nothing else
C19_Witness ==
    /\ script_lines = <<CmdA, ScriptSpace>>
    /\ script_status = Finished /\ current_step_index = 2
    /\ nSubmit = 1 /\ mpc = "idle" /\ nLoad = 1
    /\ history_log = <<HistoryLine(CmdA)>>

\* C20: load_script of a file of blank lines only shows the "Empty File"
\* box and leaves the stepper with those lines and the index 0, the step
\* button as it was; no call on such a script gives anything to
\* send_command or shows anything; and load_script of a file with a
\* non-blank line, whatever was loaded before, leaves the index 0, the step
\* button enabled and the status "Loaded".
C20_EmptyScriptLoad ==
    [][/\ (nLoad' # nLoad /\ dialog' # "Error")
          => IF \A i \in 1..Len(script_lines') : BlankLine(script_lines'[i])
             THEN /\ dialog' = "Empty File"
                  /\ current_step_index' = 0
                  /\ step_btn' = step_btn /\ script_status' = script_status
                  /\ nSubmit' = nSubmit /\ widgetVars' = widgetVars
             ELSE /\ dialog' = "none"
                  /\ current_step_index' = 0
                  /\ step_btn' = "normal" /\ script_status' = Loaded
                  /\ nSubmit' = nSubmit
       /\ ( /\ mpc = "idle" /\ nLoad' = nLoad
            /\ \A i \in 1..Len(script_lines) : BlankLine(script_lines[i]) )
          => /\ nSubmit' = nSubmit /\ mpc' = "idle"
             /\ widgetVars' = widgetVars
      ]_vars
\* a file of blank lines was loaded and stepped (nothing shown, the script
\* reported finished), then a file with a command: the index is 0 and the
\* step button enabled
C20_Witness ==
    /\ nLoad = 2 /\ dialog = "none"
    /\ nLines > Len(script_lines) /\ CmdA \in Range(script_lines)
    /\ repl_log = <<ScriptLoadedLine>> /\ history_log = <<>>
    /\ current_step_index = 0 /\ step_btn = "normal"
    /\ script_status = Loaded /\ nSubmit = 0

\* ------------------------------------------------------ claims, continued
\* C21: for every line made of plain characters and well-formed CSI
\* sequences, strip_ansi_codes returns the plain characters in their order
\* and nothing else (the line itself when it holds no sequence): that is the
\* text the reader holds after cleaning the line and the text of the events
\* it puts for it.
C21_Sanitizer ==
    \A toks \in SanitizerInputs :
        (pstdout[1] # <<>> /\ pstdout[1][1].raw = Flatten(toks))
        => /\ strip_ansi_codes(Flatten(toks)) = PlainOf(toks)
           /\ tpc[1] \in {"echotest", "readtime", "emit"}
              => tline[1].text = PlainOf(toks)
           /\ \A i \in 1..Len(msg_queue) :
                IsFromChild(msg_queue[i]) => msg_queue[i].text = PlainOf(toks)
\* the line ESC[1;3m y [ ESC[?2h... : "y" between two sequences was read and
\* reported as "y"
C21_Witness ==
    /\ pstdout[1] # <<>>
    /\ pstdout[1][1].raw =
         Flatten(<<CsiToken(<<"1", ";", "3">>, "m"), PlainToken("y"),
                   CsiToken(<<"?", "2">>, "h")>>)
    /\ \E i \in 1..Len(msg_queue) :
          IsResponse(msg_queue[i]) /\ msg_queue[i].text = <<"y">>

\* C22 as stated: the step that recognizes the echo clears the submission
\* time together with the pending text (so that a response line after the
\* echo finds none and carries no duration).
C22_ClearedAtEcho ==
    [][\A t \in Threads :
        ReaderStep(t, "clear_last") => command_start_time' = 0]_vars
\* C22 amended: the echo clears the pending text only; the submission time
\* is held until a response line is timed, which carries the duration
\* measured from it and clears it, whether that line comes before or after
\* the echo; a response line timed while no submission time is held carries
\* none; and the submission time changes only by a submit or by such a line.
C22_ClearedAtResponse ==
    [][/\ \A t \in Threads :
            /\ ReaderStep(t, "clear_last")
               => /\ last_command' = <<>>
                  /\ command_start_time' = command_start_time
            /\ ReaderStep(t, "readtime")
               => /\ tdur'[t] = command_start_time
                  /\ command_start_time' = command_start_time
            /\ ReaderStep(t, "emit")
               => /\ Len(msg_queue') = Len(msg_queue) + 2
                  /\ msg_queue'[Len(msg_queue')].type = "recv"
                  /\ msg_queue'[Len(msg_queue')].since = tdur[t]
                  /\ tdur[t] # 0 => command_start_time' = 0
                  /\ tdur[t] = 0 => command_start_time' = command_start_time
       /\ command_start_time' # command_start_time
          => \/ MainSendStep("time")
             \/ \E t \in Threads : ReaderStep(t, "emit")
      ]_vars
\* "a" was submitted, its echo recognized, and the line after the echo was
\* reported with the duration since that submit; the next line has none
C22_Witness ==
    /\ nSubmit = 1 /\ last_command = <<>> /\ command_start_time = 0
    /\ Len(pstdout[1]) = 3 /\ pread[1] = 3 /\ tpc[1] = "loop"
    /\ pstdout[1][1].raw = PromptAndEcho(CmdA)
    /\ Clean(pstdout[1][2].raw) = <<"y">>
    /\ Clean(pstdout[1][3].raw) = <<"y">>
    /\ \E i \in 1..Len(msg_queue) :
          /\ msg_queue[i].type = "recv" /\ msg_queue[i].since = 1
          /\ \E j \in (i + 1)..Len(msg_queue) :
                msg_queue[j].type = "recv" /\ msg_queue[j].since = 0

\* C23: when restart_process returns, the session it started has no pending
\* command: last_command and command_start_time are None, so that nothing
\* the new child writes is taken for the echo of, or timed against, a
\* command submitted before the restart.
C23_RestartFresh ==
    [][((nRestart' # nRestart \/ mpc = "restart") /\ mpc' = "idle")
         => last_command' = <<>> /\ command_start_time' = 0
      ]_vars

\* the text of the k-th submit, as its send event reports it
SentText(k) == msg_queue[CHOOSE i \in SendsOf(k) : TRUE].text
\* thread t holds a line written in reaction to the first command that is
\* the echo of that command, while the second command is the pending one
\* and the line is not an echo of the second as well
EchoOfOverwritten(t) ==
    /\ nSubmit = 2 /\ SendsOf(1) # {} /\ SendsOf(2) # {}
    /\ last_command = <<SentText(2)>>
    /\ tline[t].cause = 1
    /\ tline[t].text \in {Clean(SentText(1)), Clean(PromptAndEcho(SentText(1)))}
    /\ tline[t].text \notin {SentText(2), PromptAndEcho(SentText(2))}

\* C24: when a second command has overwritten the pending text before the
\* echo of the first is tested, that echo is not discarded: the pending text
\* stays that of the second command, the line is timed against the
\* submission time held then, and it is put as a response line with that
\* duration.  (That such a run exists is what the witness shows.)
C24_OverlappingSubmissions ==
    [][\A t \in Threads :
        /\ (ReaderStep(t, "echotest") /\ EchoOfOverwritten(t))
           => /\ tpc'[t] = "readtime"
              /\ last_command' = last_command /\ msg_queue' = msg_queue
        /\ (ReaderStep(t, "readtime") /\ EchoOfOverwritten(t))
           => tdur'[t] = command_start_time /\ tpc'[t] = "emit"
        /\ (ReaderStep(t, "emit") /\ EchoOfOverwritten(t))
           => /\ msg_queue' = msg_queue
                    \o <<ReplLine(tline[t], t), RecvEvent(tline[t], tdur[t], t)>>
              /\ last_command' = last_command
      ]_vars
\* "a" then "tau>" were submitted; the child's echo "tau> a" of the first is
\* in the queue as a response line, after the send event of the second,
\* with the duration since the second submit, and "tau>" is still pending
C24_Witness ==
    /\ nSubmit = 2 /\ mpc = "idle" /\ last_command = <<PromptToken>>
    /\ SendsOf(1) # {} /\ SentText(1) = CmdA
    /\ SendsOf(2) # {} /\ SentText(2) = PromptToken
    /\ pstdout[1] = <<[raw |-> PromptAndEcho(CmdA), cause |-> 1]>>
    /\ pread[1] = 1 /\ tpc[1] = "loop" /\ command_start_time = 0
    /\ \E i \in 1..Len(msg_queue) :
          /\ IsResponse(msg_queue[i]) /\ msg_queue[i].text = PromptAndEcho(CmdA)
          /\ msg_queue[i].cause = 1
          /\ i < Len(msg_queue) /\ msg_queue[i + 1].type = "recv"
          /\ msg_queue[i + 1].text = PromptAndEcho(CmdA)
          /\ msg_queue[i + 1].since = 2
          /\ \A j \in SendsOf(2) : j < i

\* the line thread t has last read, as the child wrote it
LastRead(t) == pstdout[tcur[t]][pread[tcur[t]]].raw

\* C25: when the line a reader tests is the child's echo of the pending
\* command (the command as it was written, surrounding white space
\* included, bare or behind "tau> "), the line is recognized: no event is
\* put for it and the pending text is cleared.
C25_EchoWithWhitespace ==
    [][\A t \in Threads :
        /\ ( /\ ReaderStep(t, "echotest") /\ last_command # <<>>
             /\ LastRead(t) \in {last_command[1],
                                  PromptAndEcho(last_command[1])} )
           => tpc'[t] = "clear_last" /\ msg_queue' = msg_queue
        /\ ReaderStep(t, "clear_last")
           => last_command' = <<>> /\ msg_queue' = msg_queue
      ]_vars

\* C26: a call of execute_next_step that hands a line to send_command leaves
\* the index one past that line, with the status and the button that the
\* lines after it call for, also when send_command refuses the line because
\* no process is running (it then only logs that, and nothing is written);
\* a write that fails afterwards is logged and changes nothing of the
\* stepper; and the index never moves back without a load, so that no later
\* call hands the same line over again.
C26_StepIgnoresSubmitOutcome ==
    [][/\ (StepTaken /\ NonBlankAfter(script_lines, current_step_index) # {})
          => LET k == Min(NonBlankAfter(script_lines, current_step_index))
                 more == NonBlankAfter(script_lines, k) # {}
             IN ~CommentLine(script_lines[k])
                => /\ nSubmit' = nSubmit + 1
                   /\ current_step_index' = k
                   /\ script_status' =
                        IF more THEN StepOf(k, Len(script_lines)) ELSE Finished
                   /\ step_btn' = IF more THEN step_btn ELSE "disabled"
                   /\ ~(process # 0 /\ palive[process] = "alive")
                      => /\ mpc' = "idle" /\ pstdin' = pstdin
                         /\ msg_queue' = msg_queue
                         /\ repl_log' = Append(repl_log, NotRunningLine)
       /\ (MainSendStep("write") /\ palive[process] # "alive")
          => /\ scriptVars' = scriptVars /\ pstdin' = pstdin
             /\ repl_log' = Append(repl_log, WriteErrorLine)
       /\ (nLoad' = nLoad /\ nSubmit' # nSubmit)
          => current_step_index' > current_step_index
       /\ nLoad' = nLoad => current_step_index' >= current_step_index
      ]_vars
\* the script "a", "a": the first step found no process running and was
\* refused, the second step submitted the second line, the only one the
\* child was given, and the script is finished
C26_Witness ==
    /\ script_lines = <<CmdA, CmdA>> /\ nLoad = 1
    /\ current_step_index = 2 /\ script_status = Finished
    /\ step_btn = "disabled"
    /\ nSubmit = 2 /\ mpc = "idle"
    /\ \E i \in 1..Len(repl_log) : repl_log[i] = NotRunningLine
    /\ history_log = <<HistoryLine(CmdA)>>
    /\ pstdin[1] = <<[text |-> CmdA, id |-> 2]>>
\* the script "a": the line was accepted, the child exited before the
\* write, the failure was logged and the script is finished all the same
C26_WitnessWriteFails ==
    /\ script_lines = <<CmdA>> /\ current_step_index = 1
    /\ script_status = Finished /\ nSubmit = 1 /\ mpc = "idle"
    /\ palive[1] = "dead" /\ history_log = <<HistoryLine(CmdA)>>
    /\ repl_log # <<>> /\ repl_log[Len(repl_log)] = WriteErrorLine
====
